---- MODULE Spec2Model ----
(***************************************************************************)
(* tokio-pg-mapper: the PostgresMapper derive (pg_mapper_derive/src/lib.rs) *)
(* and the runtime trait / error pair it targets (src/lib.rs).              *)
(*                                                                         *)
(* Three specifications share the module:                                  *)
(*   Spec     the derive: an annotated item is expanded or the macro       *)
(*            panics, and the generated metadata accessors are called;     *)
(*   RowSpec  the generated fallible conversions run, field by field, on   *)
(*            a row;                                                       *)
(*   ErrSpec  a tokio_postgres::Error is converted into the library Error  *)
(*            and the result is displayed and asked for its source.        *)
(*                                                                         *)
(* Strings are TLA+ strings (\o concatenates).  Option<T> is a sequence of *)
(* length at most one: None is <<>>, Some(x) is <<x>>.                     *)
(***************************************************************************)
EXTENDS Integers, Sequences, FiniteSets, TLC

VARIABLES
    ast,        \* the DeriveInput handed to the macro: attrs and data
    phase,      \* "input", "panicked" or "expanded"
    panic,      \* the panic message of an aborted expansion, "" otherwise
    impl,       \* the generated impl of FromTokioPostgresRow
    ret,        \* the last value returned by a generated metadata accessor
    row,        \* the tokio_postgres Row handed to the conversions
    rowMoved,   \* TRUE once the row was moved into the owned conversion
    own,        \* the call of from_tokio_postgres_row
    ref,        \* the call of from_tokio_postgres_row_ref
    err,        \* the tokio_postgres::Error handed to From
    out,        \* Option of the library Error that From returned
    shown,      \* Option of the text Display wrote for out
    src         \* Option of the value source() returned for out (itself an Option)

vars == <<ast, phase, panic, impl, ret, row, rowMoved, own, ref, err, out, shown, src>>

None == <<>>
Some(x) == <<x>>
IsSome(o) == Len(o) = 1
Unwrap(o) == o[1]

\* Sequences over S of length at most n.
SeqUpTo(S, n) == UNION {[1..k -> S] : k \in 0..n}

(***************************************************************************)
(* Bounds of the model.                                                    *)
(***************************************************************************)
MaxAttrs == 2
MaxItems == 1
MaxFields == 2
MaxChain == 2

(***************************************************************************)
(* The derive input.                                                       *)
(***************************************************************************)

\* A literal of a name-value item: table = "user", table = 1.
LitStr(s) == [kind |-> "Str", value |-> s]
LitInt == [kind |-> "Int", value |-> "1"]

TableNames == {"user", ""}

\* The nested items of #[pg_mapper(...)]: name = literal, or a bare literal.
NameValueItem(name, lit) == [nested |-> "Meta", meta |-> "NameValue", path |-> name, lit |-> lit]
LitItem(lit) == [nested |-> "Lit", meta |-> "", path |-> "", lit |-> lit]

NestedMeta ==
    {NameValueItem("table", LitStr(s)) : s \in TableNames}
    \cup {NameValueItem("table", LitInt),
          NameValueItem("schema", LitStr("public")),
          LitItem(LitStr("user"))}

\* An attribute: its path and what parse_meta makes of it.
Attr(path, meta, nested) == [path |-> path, meta |-> meta, nested |-> nested]

Attribute ==
    {Attr(<<"pg_mapper">>, "List", n) : n \in SeqUpTo(NestedMeta, MaxItems)}
    \cup {Attr(<<"pg_mapper">>, "Path", <<>>),
          Attr(<<"pg_mapper">>, "NameValue", <<>>),
          Attr(<<"doc">>, "NameValue", <<>>)}

\* The named fields used to build structs (examples/src/main.rs).
Field(ident, ty) == [ident |-> ident, ty |-> ty]

FieldPool == {Field("id", "i64"), Field("name", "String"), Field("email", "Option<String>")}

NoRepeat(s) == \A i, j \in 1..Len(s) : i # j => s[i].ident # s[j].ident

\* Structs with named fields, in declaration order.
Structs == {s \in SeqUpTo(FieldPool, MaxFields) : NoRepeat(s)}

DataStruct(fields) == [kind |-> "Struct", fields |-> fields]

Data == {DataStruct(s) : s \in Structs}
        \cup {[kind |-> "Enum", fields |-> <<>>], [kind |-> "Union", fields |-> <<>>]}

DeriveInput == [attrs : SeqUpTo(Attribute, MaxAttrs), data : Data]

(***************************************************************************)
(* Attribute parsing.  A panic is a result [panic |-> message]; a value is *)
(* a result with panic = "".                                               *)
(***************************************************************************)
PanicDeclare == "declare table name: #[pg_mapper(table = \"foo\")]"
PanicNotString == "expected pg_mapper table attribute to be a string"
PanicUnknown == "unknown pg_mapper container attribute"
PanicLiteral == "unexpected literal in pg_mapper container attribute"
PanicNotStruct == "Enums or Unions can not be mapped"

Panicked(msg) == [panic |-> msg, value |-> None]
Returned(v) == [panic |-> "", value |-> Some(v)]

\* Some(items) for a pg_mapper attribute in list form, None for an attribute
\* of another path, a panic for a pg_mapper attribute in any other form.
get_mapper_meta_items(attr) ==
    IF Len(attr.path) = 1 /\ attr.path[1] = "pg_mapper"
    THEN IF attr.meta = "List" THEN Returned(Some(attr.nested))
                               ELSE Panicked(PanicDeclare)
    ELSE Returned(None)

\* Ok(the string) for a string literal, a panic otherwise.
get_lit_str(attr_name, lit) ==
    IF lit.kind = "Str" THEN Returned(lit.value)
                        ELSE Panicked(PanicNotString)

\* One pass of the inner loop: the items of one attribute, from item i on,
\* with table_name as set so far.
RECURSIVE ParseItems(_, _, _)
ParseItems(items, i, table_name) ==
    IF i > Len(items) THEN Returned(table_name)
    ELSE LET m == items[i] IN
         IF m.nested = "Meta" /\ m.meta = "NameValue" /\ m.path = "table"
         THEN LET s == get_lit_str(m.path, m.lit) IN
              IF s.panic # "" THEN Panicked(s.panic)
              ELSE ParseItems(items, i + 1, Some(Unwrap(s.value)))
         ELSE IF m.nested = "Meta" THEN Panicked(PanicUnknown)
         ELSE Panicked(PanicLiteral)

\* The outer loop: attributes from a on, filtered by get_mapper_meta_items.
RECURSIVE ParseAttrs(_, _, _)
ParseAttrs(attrs, a, table_name) ==
    IF a > Len(attrs) THEN Returned(table_name)
    ELSE LET got == get_mapper_meta_items(attrs[a]) IN
         IF got.panic # "" THEN Panicked(got.panic)
         ELSE IF ~IsSome(Unwrap(got.value)) THEN ParseAttrs(attrs, a + 1, table_name)
         ELSE LET r == ParseItems(Unwrap(Unwrap(got.value)), 1, table_name) IN
              IF r.panic # "" THEN Panicked(r.panic)
              ELSE ParseAttrs(attrs, a + 1, Unwrap(r.value))

\* As parse_table_attr, with a missing table name defaulted to "".
parse_table_attr_Defaulted(input) ==
    LET r == ParseAttrs(input.attrs, 1, None) IN
    IF r.panic # "" THEN Panicked(r.panic)
    ELSE IF IsSome(Unwrap(r.value)) THEN Returned(Unwrap(Unwrap(r.value)))
    ELSE Returned("")

\* The table name of the item, or the panic that aborts the expansion.
parse_table_attr(input) ==
    LET r == ParseAttrs(input.attrs, 1, None) IN
    IF r.panic # "" THEN Panicked(r.panic)
    ELSE IF IsSome(Unwrap(r.value)) THEN Returned(Unwrap(Unwrap(r.value)))
    ELSE Panicked(PanicDeclare)

(***************************************************************************)
(* Code generation.                                                        *)
(***************************************************************************)

\* The methods the trait FromTokioPostgresRow requires.
TraitMethods ==
    {"from_row", "from_row_ref", "from_rows", "sql_table", "sql_fields", "sql_table_fields"}

\* The methods written in the generated impl block.
GeneratedMethods ==
    {"from_tokio_postgres_row", "from_tokio_postgres_row_ref", "sql_table", "sql_fields"}

\* As row_expr, naming a column of another field.
row_expr_Other(field) == IF field.ident = "id" THEN "name" ELSE "id"

\* format!(r##"{}"##, ident)
row_expr(field) == field.ident

\* One field initialiser: #ident: row.try_get::<&str, #ty>(#row_expr)?
FieldInit(field) == [ident |-> field.ident, ty |-> field.ty, row_expr |-> row_expr(field)]

\* s.fields.iter().map(...): the initialisers in declaration order.
fields(s) == [i \in 1..Len(s) |-> FieldInit(s[i])]

\* As fields_copy, with the initialisers in reverse order.
fields_copy_Reversed(s) == [i \in 1..Len(s) |-> FieldInit(s[Len(s) + 1 - i])]

\* fields.clone()
fields_copy(s) == fields(s)

\* Vec<String>::join(sep)
RECURSIVE join(_, _)
join(v, sep) ==
    IF Len(v) = 0 THEN ""
    ELSE IF Len(v) = 1 THEN v[1]
    ELSE v[1] \o sep \o join(Tail(v), sep)

\* format!("{0}.{1}", table_name, ident) per field, joined with ", ".
columns(s, table_name) ==
    join([i \in 1..Len(s) |-> table_name \o "." \o s[i].ident], ", ")

\* The generated impl: what each generated method is made of.
impl_tokio_pg_mapper(s, table_name) ==
    [methods    |-> GeneratedMethods,
     owned      |-> fields(s),
     borrowed   |-> fields_copy(s),
     sql_table  |-> table_name,
     sql_fields |-> columns(s, table_name)]

NoImpl == [methods |-> {}, owned |-> <<>>, borrowed |-> <<>>, sql_table |-> "", sql_fields |-> ""]

NoRet == [method |-> "", value |-> ""]

(***************************************************************************)
(* The derive as a whole, and calls of the generated metadata accessors.   *)
(***************************************************************************)

\* impl_derive: the panic, or the generated impl.
impl_derive(input) ==
    LET t == parse_table_attr(input) IN
    IF t.panic # "" THEN Panicked(t.panic)
    ELSE IF input.data.kind # "Struct" THEN Panicked(PanicNotStruct)
    ELSE Returned(impl_tokio_pg_mapper(input.data.fields, Unwrap(t.value)))

\* postgres_mapper: the macro runs once on the item.
Derive ==
    /\ phase = "input"
    /\ LET r == impl_derive(ast) IN
       IF r.panic # ""
       THEN /\ phase' = "panicked"
            /\ panic' = r.panic
            /\ impl' = impl
       ELSE /\ phase' = "expanded"
            /\ panic' = panic
            /\ impl' = Unwrap(r.value)
    /\ UNCHANGED <<ast, ret, row, rowMoved, own, ref, err, out, shown, src>>

\* A call of the generated sql_table().
SqlTable ==
    /\ phase = "expanded"
    /\ ret' = [method |-> "sql_table", value |-> impl.sql_table]
    /\ UNCHANGED <<ast, phase, panic, impl, row, rowMoved, own, ref, err, out, shown, src>>

\* A call of the generated sql_fields().
SqlFields ==
    /\ phase = "expanded"
    /\ ret' = [method |-> "sql_fields", value |-> impl.sql_fields]
    /\ UNCHANGED <<ast, phase, panic, impl, row, rowMoved, own, ref, err, out, shown, src>>

(***************************************************************************)
(* Rows and the runtime error type.                                        *)
(***************************************************************************)

\* A std error: its Display text and its own source.
StdErr(msg, source) == [msg |-> msg, source |-> source]

\* The library Error.
ColumnNotFound == [tag |-> "ColumnNotFound"]
Conversion(e) == [tag |-> "Conversion", inner |-> e]
UnknownTokioPG(reason) == [tag |-> "UnknownTokioPG", reason |-> reason]

\* As From, dropping the source.
From_DropsSource(e) == UnknownTokioPG(e.msg)

\* impl From<tokio_postgres::Error> for Error (through From<Box<dyn Error>>).
From(e) ==
    LET reason == e.msg IN
    IF IsSome(e.source) THEN Conversion(Unwrap(e.source))
    ELSE UnknownTokioPG(reason)

\* impl Display for Error
Display(e) ==
    CASE e.tag = "ColumnNotFound" -> "Tokio-postgres-mapper: Column not found"
      [] e.tag = "UnknownTokioPG" -> e.reason
      [] e.tag = "Conversion" -> e.inner.msg

\* impl StdError for Error: source()
source(e) ==
    IF e.tag = "Conversion" THEN e.inner.source ELSE None

Ok(v) == [tag |-> "Ok", val |-> v]
Err(e) == [tag |-> "Err", err |-> e]

\* A cell of a row: the column's Postgres type and the value, None for NULL.
Cell(ty, raw) == [ty |-> ty, raw |-> raw]

Cells == {Cell("int8", Some("1")), Cell("int8", Some("2")),
          Cell("text", Some("a")), Cell("text", None)}

ColumnNames == {f.ident : f \in FieldPool}

\* A row: for each name, the cell of the column of that name, None when the
\* row has no such column.
Rows == [ColumnNames -> {None} \cup {Some(c) : c \in Cells}]

\* T::accepts(ty) of the field types in use.
Accepts(ty, pgty) ==
    CASE ty = "i64" -> pgty = "int8"
      [] ty = "String" -> pgty = "text"
      [] ty = "Option<String>" -> pgty = "text"

IsOption(ty) == ty = "Option<String>"

\* row.try_get::<&str, ty>(idx): the value, or the client's error.
try_get(r, idx, ty) ==
    IF ~IsSome(r[idx])
    THEN Err(StdErr("invalid column " \o idx, None))
    ELSE LET c == Unwrap(r[idx]) IN
         IF ~Accepts(ty, c.ty)
         THEN Err(StdErr("error deserializing column " \o idx,
                         Some(StdErr("cannot convert between the Rust type " \o ty
                                     \o " and the Postgres type " \o c.ty, None))))
         ELSE IF ~IsSome(c.raw) /\ ~IsOption(ty)
         THEN Err(StdErr("error deserializing column " \o idx,
                         Some(StdErr("a Postgres value was NULL", None))))
         ELSE Ok([ty |-> ty, v |-> c.raw])

(***************************************************************************)
(* The generated fallible conversions, one field initialiser per step.     *)
(***************************************************************************)

\* A call: the next initialiser, the fields built so far, the columns asked
\* of the row so far, and the result once the call has returned.
NewCall == [pc |-> 1, self |-> <<>>, log |-> <<>>, res |-> None]

Returns(call) == IsSome(call.res)
Started(call) == call.log # <<>> \/ Returns(call)

\* As Step, with a field that cannot be extracted left at a default.
Step_DefaultsOnError(call, inits, r) ==
    IF call.pc > Len(inits)
    THEN [call EXCEPT !.res = Some(Ok(call.self))]
    ELSE LET f == inits[call.pc]
             got == try_get(r, f.row_expr, f.ty)
             v == IF got.tag = "Ok" THEN got.val ELSE [ty |-> f.ty, v |-> None]
         IN [call EXCEPT !.pc = call.pc + 1,
                         !.self = Append(call.self, [ident |-> f.ident, value |-> v]),
                         !.log = Append(call.log, [column |-> f.row_expr, ty |-> f.ty])]

\* Ok(Self { #(#fields),* }): evaluate the next initialiser, ? returning
\* the converted error at once; with all of them evaluated, return Ok.
Step(call, inits, r) ==
    IF call.pc > Len(inits)
    THEN [call EXCEPT !.res = Some(Ok(call.self))]
    ELSE LET f == inits[call.pc]
             got == try_get(r, f.row_expr, f.ty)
             asked == Append(call.log, [column |-> f.row_expr, ty |-> f.ty])
         IN IF got.tag = "Ok"
            THEN [call EXCEPT !.pc = call.pc + 1,
                              !.self = Append(call.self, [ident |-> f.ident, value |-> got.val]),
                              !.log = asked]
            ELSE [call EXCEPT !.log = asked, !.res = Some(Err(From(got.err)))]

\* from_tokio_postgres_row(row): takes the row by value.
FromRowOwned ==
    /\ phase = "expanded"
    /\ ~Returns(own)
    /\ ~Started(ref) \/ Returns(ref)
    /\ own' = Step(own, impl.owned, row)
    /\ rowMoved' = TRUE
    /\ UNCHANGED <<ast, phase, panic, impl, ret, row, ref, err, out, shown, src>>

\* from_tokio_postgres_row_ref(&row): borrows the row.
FromRowRef ==
    /\ phase = "expanded"
    /\ ~Returns(ref)
    /\ ~rowMoved
    /\ ref' = Step(ref, impl.borrowed, row)
    /\ UNCHANGED <<ast, phase, panic, impl, ret, row, rowMoved, own, err, out, shown, src>>

(***************************************************************************)
(* Conversion of a client error, and the traits of the result.             *)
(***************************************************************************)
ErrorTexts == {"db error", "connection closed", "error deserializing column 0"}
CauseTexts == {"invalid byte sequence", "unexpected EOF", "a Postgres value was NULL"}

\* Std errors whose source chain has at most n links.
RECURSIVE StdErrors(_)
StdErrors(n) ==
    IF n = 0 THEN {}
    ELSE {StdErr(m, s) : m \in CauseTexts,
                         s \in {None} \cup {Some(e) : e \in StdErrors(n - 1)}}

\* tokio_postgres::Error: its Display text and its cause.
TokioErrors ==
    {StdErr(m, s) : m \in ErrorTexts,
                    s \in {None} \cup {Some(e) : e \in StdErrors(MaxChain)}}

NoErr == StdErr("", None)

\* Error::from(err)
ConvertError ==
    /\ phase = "error"
    /\ out = None
    /\ out' = Some(From(err))
    /\ UNCHANGED <<ast, phase, panic, impl, ret, row, rowMoved, own, ref, err, shown, src>>

\* out.to_string()
ShowError ==
    /\ IsSome(out)
    /\ shown = None
    /\ shown' = Some(Display(Unwrap(out)))
    /\ UNCHANGED <<ast, phase, panic, impl, ret, row, rowMoved, own, ref, err, out, src>>

\* out.source()
SourceOfError ==
    /\ IsSome(out)
    /\ src = None
    /\ src' = Some(source(Unwrap(out)))
    /\ UNCHANGED <<ast, phase, panic, impl, ret, row, rowMoved, own, ref, err, out, shown>>

(***************************************************************************)
(* Specifications.                                                         *)
(***************************************************************************)
NoRow == [c \in ColumnNames |-> None]

\* The macro is handed an item.
Init ==
    /\ ast \in DeriveInput
    /\ phase = "input"
    /\ panic = ""
    /\ impl = NoImpl
    /\ ret = NoRet
    /\ row = NoRow
    /\ rowMoved = FALSE
    /\ own = NewCall
    /\ ref = NewCall
    /\ err = NoErr
    /\ out = None
    /\ shown = None
    /\ src = None

Next == Derive \/ SqlTable \/ SqlFields

Spec == Init /\ [][Next]_vars

\* #[pg_mapper(table = "user")] on a struct (examples/src/main.rs).
Annotated(s) ==
    [attrs |-> <<Attr(<<"pg_mapper">>, "List", <<NameValueItem("table", LitStr("user"))>>)>>,
     data |-> DataStruct(s)]

\* A derived struct and a row of a query.
RowInit ==
    /\ ast \in {Annotated(s) : s \in Structs}
    /\ phase = "expanded"
    /\ panic = ""
    /\ impl = Unwrap(impl_derive(ast).value)
    /\ ret = NoRet
    /\ row \in Rows
    /\ rowMoved = FALSE
    /\ own = NewCall
    /\ ref = NewCall
    /\ err = NoErr
    /\ out = None
    /\ shown = None
    /\ src = None

RowNext == FromRowOwned \/ FromRowRef

RowSpec == RowInit /\ [][RowNext]_vars

\* A client error about to be converted.
ErrInit ==
    /\ ast = Annotated(<<>>)
    /\ phase = "error"
    /\ panic = ""
    /\ impl = NoImpl
    /\ ret = NoRet
    /\ row = NoRow
    /\ rowMoved = FALSE
    /\ own = NewCall
    /\ ref = NewCall
    /\ err \in TokioErrors
    /\ out = None
    /\ shown = None
    /\ src = None

ErrNext == ConvertError \/ ShowError \/ SourceOfError

ErrSpec == ErrInit /\ [][ErrNext]_vars

(***************************************************************************)
(* Properties.                                                             *)
(***************************************************************************)

\* The struct the macro was applied to, and the calls of the conversions.
Declared == ast.data.fields
Calls == {own, ref}

\* The column of the row named after field f holds a value convertible to
\* the type of f.
Convertible(r, f) ==
    /\ IsSome(r[f.ident])
    /\ LET c == Unwrap(r[f.ident]) IN
       /\ Accepts(f.ty, c.ty)
       /\ IsSome(c.raw) \/ IsOption(f.ty)

Matching(r, s) == \A i \in 1..Len(s) : Convertible(r, s[i])

\* C1: on a row that holds, for every field, a column of the field's name
\* with a value convertible to the field's type, both conversions return Ok
\* of a struct whose every field carries the value of the column of its own
\* name, and no column of another name is read.
C1_RoundTrip ==
    \A call \in Calls :
        (Returns(call) /\ Matching(row, Declared)) =>
            /\ Unwrap(call.res).tag = "Ok"
            /\ LET st == Unwrap(call.res).val IN
               /\ Len(st) = Len(Declared)
               /\ \A i \in 1..Len(Declared) :
                      /\ st[i].ident = Declared[i].ident
                      /\ st[i].value.ty = Declared[i].ty
                      /\ st[i].value.v = Unwrap(row[Declared[i].ident]).raw
            /\ \A k \in 1..Len(call.log) : call.log[k].column = Declared[k].ident

C1_Witness ==
    /\ Returns(own)
    /\ Len(Declared) >= 2
    /\ Matching(row, Declared)
    /\ Unwrap(own.res).tag = "Ok"

\* C2: a conversion of a row that lacks a column named after a field
\* returns Err(ColumnNotFound).
C2_ColumnNotFound ==
    \A call \in Calls :
        (Returns(call) /\ \E i \in 1..Len(Declared) : ~IsSome(row[Declared[i].ident])) =>
            call.res = Some(Err(ColumnNotFound))

\* The fields whose extraction from r fails.
Failing(r, s) == {i \in 1..Len(s) : try_get(r, s[i].ident, s[i].ty).tag = "Err"}

FirstFailing(r, s) == CHOOSE i \in Failing(r, s) : \A j \in Failing(r, s) : i <= j

\* C3: fields are extracted in declaration order; a call returns Ok only
\* with every field extracted, and otherwise returns Err with the converted
\* error of the first failing field, having asked the row for no later field.
C3_FirstErrorAborts ==
    \A call \in Calls :
        /\ Len(call.log) <= Len(Declared)
        /\ \A k \in 1..Len(call.log) :
               /\ call.log[k].column = Declared[k].ident
               /\ call.log[k].ty = Declared[k].ty
        /\ Returns(call) =>
               IF Failing(row, Declared) = {}
               THEN /\ Unwrap(call.res).tag = "Ok"
                    /\ Len(Unwrap(call.res).val) = Len(Declared)
                    /\ Len(call.log) = Len(Declared)
               ELSE LET k == FirstFailing(row, Declared) IN
                    /\ call.res = Some(Err(From(try_get(row, Declared[k].ident, Declared[k].ty).err)))
                    /\ Len(call.log) = k
                    /\ Len(call.self) = k - 1

C3_Witness ==
    /\ Returns(own)
    /\ Unwrap(own.res).tag = "Err"
    /\ Len(Declared) = 2
    /\ Len(own.log) = 1
    /\ Failing(row, Declared) = {1, 2}

\* The pg_mapper attributes of the item and their nested items, in order.
PgAttrs == {a \in 1..Len(ast.attrs) : ast.attrs[a].path = <<"pg_mapper">>}

RECURSIVE ItemsFrom(_)
ItemsFrom(a) ==
    IF a > Len(ast.attrs) THEN <<>>
    ELSE (IF a \in PgAttrs THEN ast.attrs[a].nested ELSE <<>>) \o ItemsFrom(a + 1)

PgItems == ItemsFrom(1)

IsTableStr(m) ==
    m.nested = "Meta" /\ m.meta = "NameValue" /\ m.path = "table" /\ m.lit.kind = "Str"

NotListForm == \E a \in PgAttrs : ast.attrs[a].meta # "List"

\* Every pg_mapper item is table = "<string>" and there is at least one.
WellAnnotated ==
    /\ ~NotListForm
    /\ PgItems # <<>>
    /\ \A i \in 1..Len(PgItems) : IsTableStr(PgItems[i])

\* What the claim says of every outcome of the macro but the table name
\* being empty.
AbortsWhenMalformed ==
    phase # "input" =>
        /\ PgAttrs = {} => phase = "panicked"
        /\ NotListForm => phase = "panicked"
        /\ (\E i \in 1..Len(PgItems) : ~IsTableStr(PgItems[i])) => phase = "panicked"
        /\ phase = "expanded" => WellAnnotated

\* C4 as amended: the macro panics on an item with no pg_mapper attribute,
\* with a pg_mapper attribute not in list form, or with a nested item that
\* is not table = "<string>"; it generates code only when every pg_mapper
\* item is table = "<string>" and one is present, and the table name it
\* generates code with is then the string of the last such item, never a
\* default (it is empty exactly when that item says table = "").
C4_TableNameFromAnnotation ==
    /\ AbortsWhenMalformed
    /\ phase = "expanded" => impl.sql_table = PgItems[Len(PgItems)].lit.value

\* C4 as stated: as above, and code is never generated with an empty table
\* name.
C4_NeverEmptyTableName ==
    /\ AbortsWhenMalformed
    /\ phase = "expanded" => impl.sql_table # ""

C4_Witness ==
    /\ phase = "expanded"
    /\ Len(PgItems) = 2
    /\ PgItems[1].lit.value # PgItems[2].lit.value
    /\ impl.sql_table = ""

\* C5: the methods of the generated impl are exactly the methods the trait
\* requires.
C5_ImplMatchesTrait ==
    phase = "expanded" => impl.methods = TraitMethods

\* sub occurs in s.
Contains(s, sub) ==
    \E i \in 1..(Len(s) + 1 - Len(sub)) : SubSeq(s, i, i + Len(sub) - 1) = sub

\* C6: sql_fields() returns the field names in declaration order, joined
\* with ", ", with a space on either side and without the table name
\* followed by a dot.
C6_SqlFieldsUnprefixed ==
    ret.method = "sql_fields" =>
        /\ ret.value = " " \o join([i \in 1..Len(Declared) |-> Declared[i].ident], ", ") \o " "
        /\ ~Contains(ret.value, impl.sql_table \o ".")

\* C7: sql_table() returns the annotated table name with a space on either
\* side.
C7_SqlTablePadded ==
    ret.method = "sql_table" =>
        ret.value = " " \o PgItems[Len(PgItems)].lit.value \o " "

C9_FromKeepsCause ==
    /\ IsSome(out) =>
           /\ Unwrap(out).tag # "ColumnNotFound"
           /\ IsSome(err.source) => Unwrap(out) = Conversion(Unwrap(err.source))
           /\ ~IsSome(err.source) => Unwrap(out) = UnknownTokioPG(err.msg)
    /\ IsSome(shown) =>
           Unwrap(shown) = IF IsSome(err.source) THEN Unwrap(err.source).msg ELSE err.msg
    /\ IsSome(src) =>
           /\ Unwrap(src) = IF IsSome(err.source) THEN Unwrap(err.source).source ELSE None
           /\ Unwrap(src) # err.source \/ err.source = None

C9_Witness ==
    /\ IsSome(shown)
    /\ IsSome(src)
    /\ IsSome(Unwrap(src))
    /\ Unwrap(out).tag = "Conversion"

====
